---- MODULE Spec2Model ----
(***************************************************************************)
(* Order validation program of order-engine/program/src/lib.rs.            *)
(*                                                                         *)
(* main reads five values from the input stream, runs the commitment,      *)
(* balance and nullifier checks, and commits four public values.  The      *)
(* model keeps main's locals as variables, the input stream as a sequence  *)
(* of byte frames and the public output as the sequence of committed byte  *)
(* strings.  A byte is a number in 0..255, a [u8; 32] a sequence of 32     *)
(* bytes, a u64 four 16-bit limbs (least significant first), so that the   *)
(* full 64-bit range is represented without exceeding TLC's integers.      *)
(***************************************************************************)
EXTENDS Integers, Sequences, FiniteSets, TLC

VARIABLES
    input,              \* the input stream handed to the program: a sequence of frames
    pc,                 \* position of main
    order_commitment,   \* lib.rs:31
    order_data,         \* lib.rs:34
    user_balance,       \* lib.rs:35
    required_margin,    \* lib.rs:36
    nullifier_set,      \* lib.rs:37
    balance_hash,       \* lib.rs:44
    result,             \* lib.rs:53
    out,                \* the public values committed so far
    prev                \* input, output and final position of the previous execution

vars ==
    <<input, pc, order_commitment, order_data, user_balance, required_margin,
      nullifier_set, balance_hash, result, out, prev>>

locals ==
    <<order_commitment, order_data, user_balance, required_margin,
      nullifier_set, balance_hash, result>>

----------------------------------------------------------------------------
(* Sizes fixed by the types of the program. *)

DigestLen == 32

U64Bytes == 8

LimbBase == 256 * 256

MaxLimb == LimbBase - 1

(* Bounds of the model. *)

MaxSetLen == 2

----------------------------------------------------------------------------
(* u64 and its byte encoding. *)

U64(n) == <<n, 0, 0, 0>>

U64Max == <<MaxLimb, MaxLimb, MaxLimb, MaxLimb>>

\* u64::to_le_bytes
to_le_bytes(v) ==
    <<v[1] % 256, v[1] \div 256, v[2] % 256, v[2] \div 256,
      v[3] % 256, v[3] \div 256, v[4] % 256, v[4] \div 256>>

\* u64::from_le_bytes, as the decoder of the input stream applies it
from_le_bytes(b) ==
    <<b[1] + 256 * b[2], b[3] + 256 * b[4], b[5] + 256 * b[6], b[7] + 256 * b[8]>>

\* faulty variant of GeU64: a strict comparison
GeU64_strict(a, b) ==
    \/ a[4] > b[4]
    \/ a[4] = b[4] /\ a[3] > b[3]
    \/ a[4] = b[4] /\ a[3] = b[3] /\ a[2] > b[2]
    \/ a[4] = b[4] /\ a[3] = b[3] /\ a[2] = b[2] /\ a[1] > b[1]

\* user_balance >= required_margin on u64
GeU64(a, b) ==
    \/ a[4] > b[4]
    \/ a[4] = b[4] /\ a[3] > b[3]
    \/ a[4] = b[4] /\ a[3] = b[3] /\ a[2] > b[2]
    \/ a[4] = b[4] /\ a[3] = b[3] /\ a[2] = b[2] /\ a[1] >= b[1]

----------------------------------------------------------------------------
(* Sha256.  The digest function of the sha2 crate is outside the           *)
(* repository; it is represented by a deterministic function from byte     *)
(* sequences to 32-byte digests (absorb every byte, then squeeze 32        *)
(* bytes) that has no collision on the byte sequences enumerated below.    *)

RECURSIVE Absorb(_, _)
Absorb(s, data) ==
    IF data = <<>> THEN s
    ELSE Absorb((s * 33 + Head(data) + 1) % 65521, Tail(data))

RECURSIVE Squeeze(_, _)
Squeeze(s, n) ==
    IF n = 0 THEN <<>>
    ELSE <<s % 256>> \o Squeeze((s * 33 + 17) % 65521, n - 1)

Sha256(data) == Squeeze(Absorb(5381 + Len(data), data), DigestLen)

\* lib.rs:77
hash_data(data) == Sha256(data)

\* faulty variant of hash_balance: the balance hashed in big-endian byte order
hash_balance_be(balance) ==
    LET le == to_le_bytes(balance)
    IN  Sha256([i \in 1..U64Bytes |-> le[U64Bytes + 1 - i]])

\* lib.rs:84
hash_balance(balance) == Sha256(to_le_bytes(balance))

\* faulty variant of validate_commitment: the last byte is left out of the comparison
validate_commitment_prefix(data, commitment) ==
    LET computed_hash == hash_data(data)
    IN  SubSeq(computed_hash, 1, DigestLen - 1) = SubSeq(commitment, 1, DigestLen - 1)

\* lib.rs:68
validate_commitment(data, commitment) ==
    LET computed_hash == hash_data(data)
    IN  computed_hash = commitment

\* faulty variant of contains: only the first element is compared
contains_first(set, x) == set # <<>> /\ Head(set) = x

\* Vec::contains: a linear scan comparing whole elements
RECURSIVE contains(_, _)
contains(set, x) ==
    IF set = <<>> THEN FALSE
    ELSE IF Head(set) = x THEN TRUE
    ELSE contains(Tail(set), x)

----------------------------------------------------------------------------
(* Frames of the input stream and of the public output (bincode: fixed     *)
(* arrays and structs are their bytes in field order, a u64 is 8 bytes     *)
(* little-endian, a Vec is a u64 length followed by its elements, a bool   *)
(* is one byte).                                                           *)

BoolByte(b) == IF b THEN 1 ELSE 0

RECURSIVE Flatten(_)
Flatten(arrays) ==
    IF arrays = <<>> THEN <<>> ELSE Head(arrays) \o Flatten(Tail(arrays))

EncodeCommitment(c) == c.commitment \o c.nullifier \o c.balance_hash

EncodeU64(v) == to_le_bytes(v)

EncodeBytes(data) == to_le_bytes(U64(Len(data))) \o data

EncodeArrays(arrays) == to_le_bytes(U64(Len(arrays))) \o Flatten(arrays)

\* the frame committed for a ValidationResult: its fields in declaration order
EncodeResult(r) ==
    <<BoolByte(r.is_valid), BoolByte(r.commitment_valid),
      BoolByte(r.balance_sufficient), BoolByte(r.nullifier_unused)>>

\* the element count a Vec frame declares, -1 when the frame has no room for it
DeclaredLen(frame) ==
    IF Len(frame) < U64Bytes THEN -1
    ELSE LET n == from_le_bytes(SubSeq(frame, 1, U64Bytes))
         IN  IF n[2] = 0 /\ n[3] = 0 /\ n[4] = 0 THEN n[1] ELSE -1

CanDecodeCommitment(frame) == Len(frame) = 3 * DigestLen

DecodeCommitment(frame) ==
    [commitment   |-> SubSeq(frame, 1, DigestLen),
     nullifier    |-> SubSeq(frame, DigestLen + 1, 2 * DigestLen),
     balance_hash |-> SubSeq(frame, 2 * DigestLen + 1, 3 * DigestLen)]

CanDecodeBytes(frame) ==
    DeclaredLen(frame) >= 0 /\ Len(frame) = U64Bytes + DeclaredLen(frame)

DecodeBytes(frame) == SubSeq(frame, U64Bytes + 1, Len(frame))

CanDecodeU64(frame) == Len(frame) = U64Bytes

DecodeU64(frame) == from_le_bytes(frame)

CanDecodeArrays(frame) ==
    DeclaredLen(frame) >= 0 /\ Len(frame) = U64Bytes + DigestLen * DeclaredLen(frame)

DecodeArrays(frame) ==
    [k \in 1..DeclaredLen(frame) |->
        SubSeq(frame, U64Bytes + DigestLen * (k - 1) + 1, U64Bytes + DigestLen * k)]

----------------------------------------------------------------------------
(* The inputs enumerated. *)

\* "BUY 10 BTC @ 50000"
Payload1 == <<66, 85, 89, 32, 49, 48, 32, 66, 84, 67, 32, 64, 32, 53, 48, 48, 48, 48>>

\* "BUY 10 BTC @ 5000", a proper prefix of Payload1
Payload2 == SubSeq(Payload1, 1, Len(Payload1) - 1)

Payloads == {Payload1, Payload2}

\* the array that differs from d in its last byte only
Twin(d) == [d EXCEPT ![DigestLen] = (d[DigestLen] + 1) % 256]

CommitmentDigests == {Sha256(Payload1), Twin(Sha256(Payload1))}

Nullifier1 == Squeeze(1, DigestLen)

Nullifiers == {Nullifier1, Twin(Nullifier1)}

Balances == {U64(0), U64(500), U64Max}

Margins == {U64(500), U64Max}

BalanceHashes == {hash_balance(U64(500)), Twin(hash_balance(U64(500)))}

NullifierSets == UNION {[1..n -> Nullifiers] : n \in 0..MaxSetLen}

Commitments ==
    [commitment : CommitmentDigests, nullifier : Nullifiers, balance_hash : BalanceHashes]

\* the well-formed frames of each position of the input stream
CommitmentFrames == {EncodeCommitment(c) : c \in Commitments}

PayloadFrames == {EncodeBytes(p) : p \in Payloads}

BalanceFrames == {EncodeU64(b) : b \in Balances}

MarginFrames == {EncodeU64(m) : m \in Margins}

NullifierSetFrames == {EncodeArrays(s) : s \in NullifierSets}

\* a frame that lost its last byte in transport
Truncated(frame) == SubSeq(frame, 1, Len(frame) - 1)

\* Scenario A of the specification: every check passes
ScenarioA ==
    <<EncodeCommitment([commitment |-> Sha256(Payload1), nullifier |-> Nullifier1,
                        balance_hash |-> hash_balance(U64(500))]),
      EncodeBytes(Payload1), EncodeU64(U64(500)), EncodeU64(U64(500)),
      EncodeArrays(<<>>)>>

\* the malformed streams: a stream that ends early, or one frame truncated
MalformedStreams ==
    {SubSeq(ScenarioA, 1, k) : k \in 0..4}
        \cup {[ScenarioA EXCEPT ![i] = Truncated(ScenarioA[i])] : i \in 1..5}

WellFormedStreams ==
    {<<f1, f2, f3, f4, f5>> :
        f1 \in CommitmentFrames, f2 \in PayloadFrames, f3 \in BalanceFrames,
        f4 \in MarginFrames, f5 \in NullifierSetFrames}

----------------------------------------------------------------------------
(* State before main runs. *)

NoCommitment == [commitment |-> <<>>, nullifier |-> <<>>, balance_hash |-> <<>>]

NoResult ==
    [is_valid |-> FALSE, commitment_valid |-> FALSE,
     balance_sufficient |-> FALSE, nullifier_unused |-> FALSE]

NoPrev == [input |-> <<>>, out |-> <<>>, pc |-> "none"]

Fresh ==
    /\ pc = "read_commitment"
    /\ order_commitment = NoCommitment
    /\ order_data = <<>>
    /\ user_balance = U64(0)
    /\ required_margin = U64(0)
    /\ nullifier_set = <<>>
    /\ balance_hash = <<>>
    /\ result = NoResult
    /\ out = <<>>

Init ==
    /\ input \in WellFormedStreams \cup MalformedStreams
    /\ Fresh
    /\ prev = NoPrev

----------------------------------------------------------------------------
(* main *)

\* the next frame of the stream is the one after those already read
HasFrame(i) == Len(input) >= i

\* lib.rs:31
ReadOrderCommitment ==
    /\ pc = "read_commitment"
    /\ IF HasFrame(1) /\ CanDecodeCommitment(input[1])
       THEN /\ order_commitment' = DecodeCommitment(input[1])
            /\ pc' = "read_data"
       ELSE /\ pc' = "aborted"
            /\ UNCHANGED order_commitment
    /\ UNCHANGED <<input, order_data, user_balance, required_margin,
                   nullifier_set, balance_hash, result, out, prev>>

\* lib.rs:34
ReadOrderData ==
    /\ pc = "read_data"
    /\ IF HasFrame(2) /\ CanDecodeBytes(input[2])
       THEN /\ order_data' = DecodeBytes(input[2])
            /\ pc' = "read_balance"
       ELSE /\ pc' = "aborted"
            /\ UNCHANGED order_data
    /\ UNCHANGED <<input, order_commitment, user_balance, required_margin,
                   nullifier_set, balance_hash, result, out, prev>>

\* lib.rs:35
ReadUserBalance ==
    /\ pc = "read_balance"
    /\ IF HasFrame(3) /\ CanDecodeU64(input[3])
       THEN /\ user_balance' = DecodeU64(input[3])
            /\ pc' = "read_margin"
       ELSE /\ pc' = "aborted"
            /\ UNCHANGED user_balance
    /\ UNCHANGED <<input, order_commitment, order_data, required_margin,
                   nullifier_set, balance_hash, result, out, prev>>

\* lib.rs:36
ReadRequiredMargin ==
    /\ pc = "read_margin"
    /\ IF HasFrame(4) /\ CanDecodeU64(input[4])
       THEN /\ required_margin' = DecodeU64(input[4])
            /\ pc' = "read_nullifiers"
       ELSE /\ pc' = "aborted"
            /\ UNCHANGED required_margin
    /\ UNCHANGED <<input, order_commitment, order_data, user_balance,
                   nullifier_set, balance_hash, result, out, prev>>

\* faulty variant of ReadNullifierSet: a frame that does not decode is taken
\* for the empty set
ReadNullifierSet_default ==
    /\ pc = "read_nullifiers"
    /\ nullifier_set' =
          IF HasFrame(5) /\ CanDecodeArrays(input[5]) THEN DecodeArrays(input[5]) ELSE <<>>
    /\ pc' = "validate"
    /\ UNCHANGED <<input, order_commitment, order_data, user_balance,
                   required_margin, balance_hash, result, out, prev>>

\* lib.rs:37
ReadNullifierSet ==
    /\ pc = "read_nullifiers"
    /\ IF HasFrame(5) /\ CanDecodeArrays(input[5])
       THEN /\ nullifier_set' = DecodeArrays(input[5])
            /\ pc' = "validate"
       ELSE /\ pc' = "aborted"
            /\ UNCHANGED nullifier_set
    /\ UNCHANGED <<input, order_commitment, order_data, user_balance,
                   required_margin, balance_hash, result, out, prev>>

\* faulty variant of IsValid: the nullifier check is left out
IsValid_no_nullifier(commitment_valid, balance_sufficient, nullifier_unused) ==
    commitment_valid /\ balance_sufficient

\* lib.rs:50
IsValid(commitment_valid, balance_sufficient, nullifier_unused) ==
    commitment_valid /\ balance_sufficient /\ nullifier_unused

\* faulty variant of Checks: the nullifier set is only scanned when the two
\* earlier checks passed
Checks_short_circuit ==
    LET commitment_valid == validate_commitment(order_data, order_commitment.commitment)
        balance_sufficient == GeU64(user_balance, required_margin)
        nullifier_unused ==
            commitment_valid /\ balance_sufficient
                /\ ~contains(nullifier_set, order_commitment.nullifier)
        is_valid == IsValid(commitment_valid, balance_sufficient, nullifier_unused)
    IN  [is_valid |-> is_valid,
         commitment_valid |-> commitment_valid,
         balance_sufficient |-> balance_sufficient,
         nullifier_unused |-> nullifier_unused]

\* lib.rs:40-58: the three checks and the ValidationResult built from them
Checks ==
    LET commitment_valid == validate_commitment(order_data, order_commitment.commitment)
        balance_sufficient == GeU64(user_balance, required_margin)
        nullifier_unused == ~contains(nullifier_set, order_commitment.nullifier)
        is_valid == IsValid(commitment_valid, balance_sufficient, nullifier_unused)
    IN  [is_valid |-> is_valid,
         commitment_valid |-> commitment_valid,
         balance_sufficient |-> balance_sufficient,
         nullifier_unused |-> nullifier_unused]

\* lib.rs:39-58
Validate ==
    /\ pc = "validate"
    /\ balance_hash' = hash_balance(user_balance)
    /\ result' = Checks
    /\ pc' = "commit_commitment"
    /\ UNCHANGED <<input, order_commitment, order_data, user_balance,
                   required_margin, nullifier_set, out, prev>>

\* env::commit: the value's frame is appended to the public output
Commit(frame, next) ==
    /\ out' = Append(out, frame)
    /\ pc' = next
    /\ UNCHANGED <<input, locals, prev>>

\* lib.rs:61
CommitCommitment ==
    /\ pc = "commit_commitment"
    /\ Commit(order_commitment.commitment, "commit_nullifier")

\* lib.rs:62
CommitNullifier ==
    /\ pc = "commit_nullifier"
    /\ Commit(order_commitment.nullifier, "commit_balance_hash")

\* faulty variant of CommitBalanceHash: the balance itself is committed
CommitBalanceHash_raw ==
    /\ pc = "commit_balance_hash"
    /\ Commit(to_le_bytes(user_balance), "commit_result")

\* faulty variant of CommitBalanceHash: the declared digest is committed
CommitBalanceHash_declared ==
    /\ pc = "commit_balance_hash"
    /\ Commit(order_commitment.balance_hash, "commit_result")

\* lib.rs:63
CommitBalanceHash ==
    /\ pc = "commit_balance_hash"
    /\ Commit(balance_hash, "commit_result")

\* faulty variant of CommitResult: the result of an invalid order is not committed
CommitResult_only_valid ==
    /\ pc = "commit_result"
    /\ IF result.is_valid
       THEN Commit(EncodeResult(result), "done")
       ELSE pc' = "done" /\ UNCHANGED <<input, locals, out, prev>>

\* lib.rs:64
CommitResult ==
    /\ pc = "commit_result"
    /\ Commit(EncodeResult(result), "done")

Terminated == pc \in {"done", "aborted"}

\* the streams that differ from a well-formed stream in one value: one field of
\* the commitment record, the payload, the balance, the margin or the set
Resubmissions(stream) ==
    LET c == DecodeCommitment(stream[1])
    IN  ({[stream EXCEPT ![1] = EncodeCommitment([c EXCEPT !.commitment = d])] :
              d \in CommitmentDigests}
         \cup {[stream EXCEPT ![1] = EncodeCommitment([c EXCEPT !.nullifier = n])] :
              n \in Nullifiers}
         \cup {[stream EXCEPT ![1] = EncodeCommitment([c EXCEPT !.balance_hash = h])] :
              h \in BalanceHashes}
         \cup {[stream EXCEPT ![2] = f] : f \in PayloadFrames}
         \cup {[stream EXCEPT ![3] = f] : f \in BalanceFrames}
         \cup {[stream EXCEPT ![4] = f] : f \in MarginFrames}
         \cup {[stream EXCEPT ![5] = f] : f \in NullifierSetFrames})
        \ {stream}

\* The host runs the program again, after an execution that completed, on a
\* stream that differs from the last one in one value; nothing of the finished
\* execution is carried over.
Invoke ==
    /\ pc = "done"
    /\ input' \in Resubmissions(input)
    /\ prev' = [input |-> input, out |-> out, pc |-> pc]
    /\ pc' = "read_commitment"
    /\ order_commitment' = NoCommitment
    /\ order_data' = <<>>
    /\ user_balance' = U64(0)
    /\ required_margin' = U64(0)
    /\ nullifier_set' = <<>>
    /\ balance_hash' = <<>>
    /\ result' = NoResult
    /\ out' = <<>>

\* one execution of main
Next ==
    \/ ReadOrderCommitment
    \/ ReadOrderData
    \/ ReadUserBalance
    \/ ReadRequiredMargin
    \/ ReadNullifierSet
    \/ Validate
    \/ CommitCommitment
    \/ CommitNullifier
    \/ CommitBalanceHash
    \/ CommitResult

Spec == Init /\ [][Next]_vars

\* executions of main one after the other
NextRerun ==
    \/ Next
    \/ Invoke

SpecRerun == Init /\ [][NextRerun]_vars

----------------------------------------------------------------------------
(* The values a stream carries and the flags an output bundle carries,     *)
(* read off the frames by position.                                        *)

DigestOf(stream) == SubSeq(stream[1], 1, DigestLen)

NullifierOf(stream) == SubSeq(stream[1], DigestLen + 1, 2 * DigestLen)

DeclaredBalanceHashOf(stream) == SubSeq(stream[1], 2 * DigestLen + 1, 3 * DigestLen)

PayloadOf(stream) == SubSeq(stream[2], U64Bytes + 1, Len(stream[2]))

BalanceOf(stream) == stream[3]

MarginOf(stream) == stream[4]

SetSizeOf(stream) == (Len(stream[5]) - U64Bytes) \div DigestLen

ElementOf(stream, k) ==
    SubSeq(stream[5], U64Bytes + DigestLen * (k - 1) + 1, U64Bytes + DigestLen * k)

\* a >= b for two unsigned numbers given as little-endian bytes: they are equal,
\* or a is larger at the most significant byte where they differ
BytesGe(a, b) ==
    LET D == {k \in 1..Len(a) : a[k] # b[k]}
    IN  D = {} \/ (\E k \in D : a[k] > b[k] /\ \A j \in D : j <= k)

ZeroBytes == [i \in 1..U64Bytes |-> 0]

MaxBytes == [i \in 1..U64Bytes |-> 255]

Emitted == pc = "done"

IsValidFlag(bundle) == bundle[4][1] = 1

CommitmentValidFlag(bundle) == bundle[4][2] = 1

BalanceSufficientFlag(bundle) == bundle[4][3] = 1

NullifierUnusedFlag(bundle) == bundle[4][4] = 1

ReadPositions ==
    {"read_commitment", "read_data", "read_balance", "read_margin", "read_nullifiers"}

\* the two streams carry the same frames except at the positions in `where`
SameExcept(s, t, where) ==
    /\ Len(s) = Len(t)
    /\ \A i \in 1..Len(s) : i \notin where => s[i] = t[i]

\* two completed executions, one after the other
BothEmitted == pc = "done" /\ prev.pc = "done"

----------------------------------------------------------------------------
\* C1: in every emitted bundle is_valid is true exactly when commitment_valid,
\* balance_sufficient and nullifier_unused are all true.
C1_IsValidIsConjunction ==
    Emitted =>
        /\ Len(out) = 4
        /\ \A k \in 1..4 : out[4][k] \in {0, 1}
        /\ IsValidFlag(out) <=>
              (CommitmentValidFlag(out) /\ BalanceSufficientFlag(out)
                  /\ NullifierUnusedFlag(out))

\* a bundle whose only false check is the nullifier check
C1_Witness == Emitted /\ out[4] = <<0, 1, 1, 0>>

\* C2: the emitted commitment_valid is true exactly when the digest of the
\* payload equals the declared commitment on all 32 bytes.
C2_CommitmentValid ==
    Emitted => (CommitmentValidFlag(out) <=> Sha256(PayloadOf(input)) = DigestOf(input))

\* a declared commitment that differs from the payload's digest in its last byte
C2_Witness ==
    /\ Emitted
    /\ DigestOf(input) = Twin(Sha256(PayloadOf(input)))
    /\ ~CommitmentValidFlag(out)

\* C3: the emitted balance_sufficient is true exactly when balance >= margin as
\* unsigned 64-bit numbers; equal values give true, 0 against 2^64-1 gives false.
C3_BalanceSufficient ==
    Emitted =>
        /\ BalanceSufficientFlag(out) <=> BytesGe(BalanceOf(input), MarginOf(input))
        /\ BalanceOf(input) = MarginOf(input) => BalanceSufficientFlag(out)
        /\ (BalanceOf(input) = ZeroBytes /\ MarginOf(input) = MaxBytes)
              => ~BalanceSufficientFlag(out)

\* balance 0 against margin 2^64-1
C3_Witness ==
    /\ Emitted
    /\ BalanceOf(input) = ZeroBytes
    /\ MarginOf(input) = MaxBytes
    /\ ~BalanceSufficientFlag(out)

\* the number of positions of the stream's nullifier set that hold x
CountOf(stream, x) == Cardinality({k \in 1..SetSizeOf(stream) : ElementOf(stream, k) = x})

\* the nullifier sets of the two streams are rearrangements of each other
SetsPermuted(s, t) ==
    /\ SetSizeOf(s) = SetSizeOf(t)
    /\ \A k \in 1..SetSizeOf(s) : CountOf(s, ElementOf(s, k)) = CountOf(t, ElementOf(s, k))

\* C4: the emitted nullifier_unused is true exactly when no element of the set
\* equals the declared nullifier on all 32 bytes; an empty set gives true, and
\* rearranging the set does not change the flag.
C4_NullifierUnused ==
    Emitted =>
        /\ NullifierUnusedFlag(out) <=>
              \A k \in 1..SetSizeOf(input) : ElementOf(input, k) # NullifierOf(input)
        /\ SetSizeOf(input) = 0 => NullifierUnusedFlag(out)
        /\ (/\ prev.pc = "done"
            /\ NullifierOf(prev.input) = NullifierOf(input)
            /\ SetsPermuted(prev.input, input))
              => (NullifierUnusedFlag(prev.out) <=> NullifierUnusedFlag(out))

\* the set of the previous execution rearranged, the nullifier in it but not first
C4_Witness ==
    /\ BothEmitted
    /\ SameExcept(prev.input, input, {5})
    /\ input[5] # prev.input[5]
    /\ SetsPermuted(prev.input, input)
    /\ ElementOf(input, 1) = Twin(NullifierOf(input))
    /\ ~NullifierUnusedFlag(out)

\* the bundle the inputs determine: the declared digest, the declared nullifier,
\* the digest of the balance's 8 little-endian bytes, and the four flags
ExpectedBundle ==
    LET cv == Sha256(PayloadOf(input)) = DigestOf(input)
        bs == BytesGe(BalanceOf(input), MarginOf(input))
        nu == \A k \in 1..SetSizeOf(input) : ElementOf(input, k) # NullifierOf(input)
    IN  <<DigestOf(input), NullifierOf(input), Sha256(BalanceOf(input)),
          <<BoolByte(cv /\ bs /\ nu), BoolByte(cv), BoolByte(bs), BoolByte(nu)>>>>

\* C5: an execution that does not abort commits exactly four values, in the
\* order commitment, nullifier, balance_hash, ValidationResult (is_valid,
\* commitment_valid, balance_sufficient, nullifier_unused), whatever the flags;
\* at every moment the output is an initial part of that bundle.
C5_FourOutputsInOrder ==
    /\ Len(out) <= 4
    /\ Len(out) > 0 => out = SubSeq(ExpectedBundle, 1, Len(out))
    /\ Emitted => out = ExpectedBundle

\* a complete bundle of an order that fails every check
C5_Witness == Emitted /\ Len(out) = 4 /\ out[4] = <<0, 0, 0, 0>>

\* C6: nothing is committed before the five inputs are read; a stream that does
\* not decode ends in an abort with no output, a stream that decodes is never
\* aborted, an execution ends aborted with 0 or completed with 4 outputs, and
\* one that has committed 1, 2 or 3 values has its next commit still to take.
C6_AbortEmitsNothing ==
    /\ pc \in ReadPositions => out = <<>>
    /\ pc = "aborted" => out = <<>>
    /\ input \in MalformedStreams => (pc # "done" /\ out = <<>>)
    /\ input \in WellFormedStreams => pc # "aborted"
    /\ Terminated =>
          \/ pc = "aborted" /\ Len(out) = 0
          \/ pc = "done" /\ Len(out) = 4
    /\ Len(out) \in 1..3 =>
          ENABLED (CommitNullifier \/ CommitBalanceHash \/ CommitResult)

\* the last of the five inputs does not decode: aborted after four reads
C6_Witness ==
    /\ pc = "aborted"
    /\ Len(input) = 5
    /\ input[5] = Truncated(ScenarioA[5])
    /\ out = <<>>

\* C7: the third committed value is the digest of the 8 little-endian bytes of
\* the balance, whatever the outcome of the three checks.
C7_BalanceHash ==
    Emitted => (Len(out[3]) = DigestLen /\ out[3] = Sha256(BalanceOf(input)))

\* balance below the margin and the commitment check failed as well
C7_Witness ==
    /\ Emitted
    /\ BalanceOf(input) = to_le_bytes(U64(500))
    /\ ~BalanceSufficientFlag(out)
    /\ ~CommitmentValidFlag(out)
    /\ out[3] = Sha256(BalanceOf(input))

\* C8 as stated: two completed executions whose inputs differ in the balance
\* only agree on every output but balance_hash, and the balance is not committed.
C8_OnlyTraceOfBalance ==
    (BothEmitted /\ SameExcept(prev.input, input, {3})) =>
        /\ out[1] = prev.out[1]
        /\ out[2] = prev.out[2]
        /\ out[4] = prev.out[4]
        /\ \A i \in 1..Len(out) : out[i] # BalanceOf(input)

\* C8 as amended: they agree on the commitment digest, the nullifier,
\* commitment_valid and nullifier_unused; balance_sufficient and is_valid agree
\* as well when both balances stand on the same side of the margin; the balance
\* is not committed.
C8_TraceOfBalance ==
    (BothEmitted /\ SameExcept(prev.input, input, {3})) =>
        /\ out[1] = prev.out[1]
        /\ out[2] = prev.out[2]
        /\ CommitmentValidFlag(out) <=> CommitmentValidFlag(prev.out)
        /\ NullifierUnusedFlag(out) <=> NullifierUnusedFlag(prev.out)
        /\ (BytesGe(BalanceOf(input), MarginOf(input))
               <=> BytesGe(BalanceOf(prev.input), MarginOf(prev.input)))
              => out[4] = prev.out[4]
        /\ \A i \in 1..Len(out) : out[i] # BalanceOf(input)

\* two balances on different sides of the margin: the flags differ
C8_Witness ==
    /\ BothEmitted
    /\ SameExcept(prev.input, input, {3})
    /\ BalanceOf(input) # BalanceOf(prev.input)
    /\ out[4] = <<0, 1, 0, 1>>
    /\ prev.out[4] = <<1, 1, 1, 1>>

\* C9: each flag depends on the inputs of its own check only, and a commitment
\* mismatch gives commitment_valid = false and is_valid = false.
C9_ChecksIndependent ==
    /\ BothEmitted =>
          /\ (PayloadOf(input) = PayloadOf(prev.input)
                 /\ DigestOf(input) = DigestOf(prev.input))
                => (CommitmentValidFlag(out) <=> CommitmentValidFlag(prev.out))
          /\ (BalanceOf(input) = BalanceOf(prev.input)
                 /\ MarginOf(input) = MarginOf(prev.input))
                => (BalanceSufficientFlag(out) <=> BalanceSufficientFlag(prev.out))
          /\ (NullifierOf(input) = NullifierOf(prev.input) /\ input[5] = prev.input[5])
                => (NullifierUnusedFlag(out) <=> NullifierUnusedFlag(prev.out))
    /\ Emitted =>
          /\ Sha256(PayloadOf(input)) # DigestOf(input)
                => (~CommitmentValidFlag(out) /\ ~IsValidFlag(out))
          /\ ~BytesGe(BalanceOf(input), MarginOf(input))
                => (~BalanceSufficientFlag(out) /\ ~IsValidFlag(out))

\* the balance of a used nullifier's order lowered below the margin: the
\* nullifier flag stays as it was
C9_Witness ==
    /\ BothEmitted
    /\ SameExcept(prev.input, input, {3})
    /\ prev.out[4] = <<0, 1, 1, 0>>
    /\ out[4] = <<0, 1, 0, 0>>

\* the streams differ at most in the declared balance_hash
SameExceptDeclaredBalanceHash(s, t) ==
    /\ SameExcept(s, t, {1})
    /\ DigestOf(s) = DigestOf(t)
    /\ NullifierOf(s) = NullifierOf(t)

\* C10: the declared balance_hash is not used: two completed executions whose
\* inputs differ in it only commit the same four values, and the digest
\* committed is the one computed from the balance.
C10_DeclaredBalanceHashUnused ==
    /\ (BothEmitted /\ SameExceptDeclaredBalanceHash(prev.input, input))
          => out = prev.out
    /\ Emitted =>
          /\ out[3] = Sha256(BalanceOf(input))
          /\ DeclaredBalanceHashOf(input) # Sha256(BalanceOf(input))
                => out[3] # DeclaredBalanceHashOf(input)

\* a valid order whose declared balance_hash is not the digest of its balance
C10_Witness ==
    /\ BothEmitted
    /\ SameExceptDeclaredBalanceHash(prev.input, input)
    /\ DeclaredBalanceHashOf(input) # DeclaredBalanceHashOf(prev.input)
    /\ DeclaredBalanceHashOf(input) # Sha256(BalanceOf(input))
    /\ out[3] # DeclaredBalanceHashOf(input)
    /\ IsValidFlag(out)

====
